---------------------------- MODULE Spec2Model ----------------------------
(***************************************************************************)
(* A model of the blog application of src/main.py: the three tables        *)
(* (users, blog_posts, comments), the login session of every browser, and  *)
(* one action per route handler.  Every handler records the request it     *)
(* served and the response it gave (status, redirect target, flashed       *)
(* message, template context) in `resp`, so that the properties below can  *)
(* speak of what a client observes.                                        *)
(***************************************************************************)
EXTENDS Integers, FiniteSets, Sequences, TLC

VARIABLES
    users,      \* rows of table "users"       (class User)
    posts,      \* rows of table "blog_posts"  (class BlogPost)
    comments,   \* rows of table "comments"    (class Comment)
    session,    \* per browser: the user id flask-login keeps in the session
    pending,    \* per browser: a request that has read the store and not yet committed
    resp        \* the request served last and its response

vars == <<users, posts, comments, session, pending, resp>>
store == <<users, posts, comments>>

---------------------------------------------------------------------------
(* Bounds of the model and the input domains.                              *)

\* the largest key a post may be given
MaxPostId == 2
\* the rows of comments under Spec, where posts are also edited and deleted
MaxComments == 1
\* the rows of comments under SpecComments
MaxThread == 2

Clients == {"c1", "c2"}
Emails == {"a@x.com", "b@x.com"}
Passwords == {"pw", "pw2"}
Salts == {"s1", "s2"}
NameOf(email) == IF email = "a@x.com" THEN "Alice" ELSE "Bob"
CommentTexts == {"Nice!"}
Days == {[year |-> 2024, month |-> 1, day |-> 5],
         [year |-> 2024, month |-> 12, day |-> 31]}
OneDay == {[year |-> 2024, month |-> 1, day |-> 5]}

RegisterForms == {[email |-> e, password |-> p, name |-> NameOf(e)] :
                     e \in Emails, p \in Passwords}
\* one account per address, for the specifications about posts and comments
Accounts == {[email |-> "a@x.com", password |-> "pw", name |-> "Alice"],
             [email |-> "b@x.com", password |-> "pw2", name |-> "Bob"]}
Credentials == {[email |-> f.email, password |-> f.password] : f \in Accounts}
LoginForms == [email : Emails, password : Passwords]
CommentForms == [comment : CommentTexts]
CreatePostForms ==
    {[title |-> "Hello",  subtitle |-> "Sub",  img_url |-> "http://img",  body |-> "Body"],
     [title |-> "Hello",  subtitle |-> "Sub2", img_url |-> "http://img2", body |-> "Body2"],
     [title |-> "Second", subtitle |-> "Sub",  img_url |-> "http://img",  body |-> "Body"]}
NoForm == [empty |-> TRUE]
\* the identifiers a request may name: some of them of no post
PostIds == 1..MaxPostId

---------------------------------------------------------------------------
(* Program constants.                                                      *)

ADMIN_ID == 1
Anonymous == 0
NULL == 0

---------------------------------------------------------------------------
(* The store: primary keys, lookups, constraints.                          *)

Ids(table) == {r.id : r \in table}

Max(S) == CHOOSE m \in S : \A n \in S : n <= m

\* An INTEGER PRIMARY KEY of SQLite without AUTOINCREMENT: one more than the
\* largest key in the table, 1 in an empty table.
NextId(table) == IF table = {} THEN 1 ELSE Max(Ids(table)) + 1

\* Model.query.get(id): the row of that primary key, if any (a set of 0 or 1 rows).
Get(table, id) == {r \in table : r.id = id}

FilterByEmail_none(email) == {}

\* User.query.filter_by(email=email).first()
FilterByEmail(email) == {u \in users : u.email = email}

NoUniqueConstraints(us, ps) == TRUE

\* unique=True of User.email and BlogPost.title, and the primary keys: what the
\* store checks when a commit writes the tables us and ps.
UniqueConstraints(us, ps) ==
    /\ \A a, b \in us : (a.email = b.email \/ a.id = b.id) => a = b
    /\ \A p, q \in ps : (p.title = q.title \/ p.id = q.id) => p = q

---------------------------------------------------------------------------
(* Passwords.                                                              *)

\* The digest is a symbolic one-way function of salt and password: two digests
\* are equal exactly when both inputs are.
Pbkdf2(salt, password) == <<"sha256", salt, password>>

generate_password_hash(password, salt) ==
    [method |-> "pbkdf2:sha256:5", salt |-> salt, hash |-> Pbkdf2(salt, password)]

check_password_hash_any(pwhash, password) == TRUE

check_password_hash(pwhash, password) ==
    pwhash.hash = Pbkdf2(pwhash.salt, password)

---------------------------------------------------------------------------
(* Dates.                                                                  *)

MonthName == <<"January", "February", "March", "April", "May", "June", "July",
               "August", "September", "October", "November", "December">>

\* date.strftime("%B %d, %Y"): month name, day of month in two digits, year.
strftime(d) == <<MonthName[d.month], <<d.day \div 10, d.day % 10>>, d.year>>

---------------------------------------------------------------------------
(* Sessions.                                                               *)

\* load_user: the session's user id resolved to a row of users.
load_user(user_id) == Get(users, user_id)

is_authenticated(c) == load_user(session[c]) # {}

current_user_id(c) == IF is_authenticated(c) THEN session[c] ELSE Anonymous

admin_only_authenticated(c) == is_authenticated(c)

\* The condition under which the decorator admin_only calls the wrapped handler.
admin_only(c) == is_authenticated(c) /\ current_user_id(c) = ADMIN_ID

---------------------------------------------------------------------------
(* Responses.                                                              *)

EmptyContext ==
    [template |-> "", all_posts |-> {}, post |-> {}, comments |-> {}, logged_in |-> FALSE]

Context(template, all_posts, post, cmts, logged_in) ==
    [template |-> template, all_posts |-> all_posts, post |-> post,
     comments |-> cmts, logged_in |-> logged_in]

Request(c, route, post_id, submitted, form) ==
    [client |-> c, route |-> route, post_id |-> post_id,
     submitted |-> submitted, form |-> form]

Response(req, status, location, flash, context) ==
    [client |-> req.client, route |-> req.route, post_id |-> req.post_id,
     submitted |-> req.submitted, form |-> req.form,
     status |-> status, location |-> location, flash |-> flash, context |-> context]

Render(req, context) == Response(req, "ok", "", "", context)
Redirect(req, location, flash) == Response(req, "redirect", location, flash, EmptyContext)
Abort(req, status) == Response(req, status, "", "", EmptyContext)

\* A request in flight: what the handler has read so far.
InFlight(op, post_id, form, loaded, user_id, date) ==
    [op |-> op, post_id |-> post_id, form |-> form, loaded |-> loaded,
     user_id |-> user_id, today |-> date]

NoDay == [year |-> 0, month |-> 0, day |-> 0]

Idle == InFlight("idle", 0, NoForm, {}, Anonymous, NoDay)

---------------------------------------------------------------------------
Init ==
    /\ users = {}
    /\ posts = {}
    /\ comments = {}
    /\ session = [c \in Clients |-> Anonymous]
    /\ pending = [c \in Clients |-> Idle]
    /\ resp = Abort(Request("c1", "none", 0, FALSE, NoForm), "none")

---------------------------------------------------------------------------
(* GET / *)
get_all_posts(c) ==
    /\ resp' = Render(Request(c, "get_all_posts", 0, FALSE, NoForm),
                      Context("index.html", posts, {}, {}, is_authenticated(c)))
    /\ UNCHANGED <<users, posts, comments, session, pending>>


(* GET /about, GET /contact *)
about(c) ==
    /\ resp' = Render(Request(c, "about", 0, FALSE, NoForm),
                      Context("about.html", {}, {}, {}, is_authenticated(c)))
    /\ UNCHANGED <<users, posts, comments, session, pending>>

contact(c) ==
    /\ resp' = Render(Request(c, "contact", 0, FALSE, NoForm),
                      Context("contact.html", {}, {}, {}, is_authenticated(c)))
    /\ UNCHANGED <<users, posts, comments, session, pending>>

---------------------------------------------------------------------------
(* /register *)

\* Lines 113-119 of register: hash, add, commit, login_user, redirect.  The store
\* assigns the key and checks its constraints at the commit; a commit it
\* rejects raises IntegrityError, the request ends in a server error and the
\* session's changes are discarded.
register_commit(c, req, form, salt) ==
    LET new_user == [id |-> NextId(users), email |-> form.email,
                     password |-> generate_password_hash(form.password, salt),
                     name |-> form.name]
        us == users \cup {new_user}
    IN  IF UniqueConstraints(us, posts)
        THEN /\ users' = us
             /\ session' = [session EXCEPT ![c] = new_user.id]
             /\ resp' = Redirect(req, "get_all_posts", "")
        ELSE /\ resp' = Abort(req, "error")
             /\ UNCHANGED <<users, session>>

register(c, submitted, form, salt) ==
    LET req == Request(c, "register", 0, submitted, form)
    IN  /\ pending[c] = Idle
        /\ IF ~submitted
           THEN /\ resp' = Render(req, Context("register.html", {}, {}, {}, FALSE))
                /\ UNCHANGED <<users, session>>
           ELSE IF FilterByEmail(form.email) = {}
                THEN register_commit(c, req, form, salt)
                ELSE /\ resp' = Redirect(req, "login",
                          "You've already signed up with that email. Login instead")
                     /\ UNCHANGED <<users, session>>
        /\ UNCHANGED <<posts, comments, pending>>

---------------------------------------------------------------------------
(* /login *)
login(c, submitted, form) ==
    LET req == Request(c, "login", 0, submitted, form)
        user == FilterByEmail(form.email)
        page == Context("login.html", {}, {}, {}, FALSE)
    IN  /\ pending[c] = Idle
        /\ IF ~submitted
           THEN /\ resp' = Render(req, page)
                /\ UNCHANGED session
           ELSE IF user # {}
                THEN LET u == CHOOSE u \in user : TRUE
                     IN  IF check_password_hash(u.password, form.password)
                         THEN /\ session' = [session EXCEPT ![c] = u.id]
                              /\ resp' = Redirect(req, "get_all_posts", "")
                         ELSE /\ resp' = Response(req, "ok", "", "Invalid password.", page)
                              /\ UNCHANGED session
                ELSE /\ resp' = Response(req, "ok", "",
                                     "This email does not exist. Please try again.", page)
                     /\ UNCHANGED session
        /\ UNCHANGED <<users, posts, comments, pending>>

---------------------------------------------------------------------------
(* /logout, behind login_required: without a login view configured, an
   unauthenticated request is aborted with 401. *)
logout_keep(c) == session

logout_user(c) == [session EXCEPT ![c] = Anonymous]

logout(c) ==
    LET req == Request(c, "logout", 0, FALSE, NoForm)
    IN  /\ pending[c] = Idle
        /\ IF is_authenticated(c)
           THEN /\ session' = logout_user(c)
                /\ resp' = Redirect(req, "get_all_posts", "")
           ELSE /\ resp' = Abort(req, "unauthorized")
                /\ UNCHANGED session
        /\ UNCHANGED <<users, posts, comments, pending>>


---------------------------------------------------------------------------
(* /post/<post_id> *)

CommentsOfPost(cmts, post_id) == {k \in cmts : k.post_id = post_id}

\* Comment.query.all(), as line 170 passes it to the template.
CommentsShown(cmts, post_id) == cmts

new_comment_unlinked(c, post, form) == [id |-> NextId(comments), author_id |-> current_user_id(c), post_id |-> NULL, text |-> form.comment]

\* Lines 162-164: the Comment row the handler builds.
new_comment(c, post, form) ==
    [id |-> NextId(comments), author_id |-> current_user_id(c),
     post_id |-> post.id, text |-> form.comment]

show_post(c, post_id, submitted, form, status) ==
    LET req == Request(c, "show_post", post_id, submitted, form)
        requested_post == Get(posts, post_id)
        logged_in == is_authenticated(c)
    IN  /\ pending[c] = Idle
        /\ IF submitted /\ ~is_authenticated(c)
           THEN /\ resp' = Redirect(req, "login", "You need to login or register to comment.")
                /\ UNCHANGED comments
           ELSE IF submitted /\ requested_post = {}
           THEN \* requested_post is None: requested_post.id raises before the add
                /\ resp' = Abort(req, "error")
                /\ UNCHANGED comments
           ELSE /\ IF submitted
                   THEN comments' = comments \cup
                              {new_comment(c, CHOOSE p \in requested_post : TRUE, form)}
                   ELSE UNCHANGED comments
                \* the template is given post=None when the row is absent; whether
                \* it renders or raises is the template's affair
                /\ status \in (IF requested_post = {} THEN {"ok", "error"} ELSE {"ok"})
                /\ resp' = IF status = "ok"
                           THEN Render(req, Context("post.html", {}, requested_post,
                                          CommentsShown(comments', post_id), logged_in))
                           ELSE Abort(req, "error")
        /\ UNCHANGED <<users, posts, session, pending>>

---------------------------------------------------------------------------
(* /new-post *)

\* Lines 198-205: the BlogPost row the handler builds.
new_post(author_id, form, today) ==
    [id |-> NextId(posts), author_id |-> author_id, title |-> form.title,
     subtitle |-> form.subtitle, date |-> strftime(today), body |-> form.body,
     img_url |-> form.img_url]

\* Lines 206-208: add, commit, redirect.
add_new_post_commit(req, author_id, form, today) ==
    LET ps == posts \cup {new_post(author_id, form, today)}
    IN  IF UniqueConstraints(users, ps)
        THEN /\ posts' = ps
             /\ resp' = Redirect(req, "get_all_posts", "")
        ELSE /\ resp' = Abort(req, "error")
             /\ UNCHANGED posts

add_new_post(c, submitted, form, today) ==
    LET req == Request(c, "add_new_post", 0, submitted, form)
    IN  /\ pending[c] = Idle
        /\ IF ~admin_only(c)
           THEN /\ resp' = Abort(req, "forbidden")
                /\ UNCHANGED posts
           ELSE IF ~submitted
           THEN /\ resp' = Render(req, Context("make-post.html", {}, {}, {}, TRUE))
                /\ UNCHANGED posts
           ELSE add_new_post_commit(req, current_user_id(c), form, today)
        /\ UNCHANGED <<users, comments, session, pending>>

---------------------------------------------------------------------------
(* /edit-post/<post_id> *)

EditedPost_with_date(row, loaded, form) == [row EXCEPT !.title = form.title, !.subtitle = form.subtitle, !.img_url = form.img_url, !.body = form.body, !.date = strftime([year |-> 2025, month |-> 2, day |-> 1])]

\* Lines 227-230 and the UPDATE of the commit: the unit of work writes the
\* attributes whose value differs from the one the request loaded.
EditedPost(row, loaded, form) ==
    [row EXCEPT !.title    = IF form.title    # loaded.title    THEN form.title    ELSE @,
                !.subtitle = IF form.subtitle # loaded.subtitle THEN form.subtitle ELSE @,
                !.img_url  = IF form.img_url  # loaded.img_url  THEN form.img_url  ELSE @,
                !.body     = IF form.body     # loaded.body     THEN form.body     ELSE @]

\* Lines 227-232: assign, commit, redirect to the post.  An UPDATE that finds no
\* row of the loaded key raises StaleDataError.
edit_post_commit(req, loaded, form) ==
    LET row == Get(posts, loaded.id)
        ps == (posts \ row) \cup {EditedPost(CHOOSE r \in row : TRUE, loaded, form)}
    IN  IF row # {} /\ UniqueConstraints(users, ps)
        THEN /\ posts' = ps
             /\ resp' = Redirect(req, "show_post", "")
        ELSE /\ resp' = Abort(req, "error")
             /\ UNCHANGED posts

edit_post(c, post_id, submitted, form) ==
    LET req == Request(c, "edit_post", post_id, submitted, form)
        post == Get(posts, post_id)
    IN  /\ pending[c] = Idle
        /\ IF ~admin_only(c)
           THEN /\ resp' = Abort(req, "forbidden")
                /\ UNCHANGED posts
           ELSE IF post = {}
           THEN \* post is None: post.title raises
                /\ resp' = Abort(req, "error")
                /\ UNCHANGED posts
           ELSE IF ~submitted
           THEN /\ resp' = Render(req, Context("make-post.html", {}, post, {}, TRUE))
                /\ UNCHANGED posts
           ELSE edit_post_commit(req, CHOOSE p \in post : TRUE, form)
        /\ UNCHANGED <<users, comments, session, pending>>

---------------------------------------------------------------------------
(* /delete/<post_id> *)

DeleteRows_by_author(ps, post) == {p \in ps : p.author_id # post.author_id}

\* db.session.delete(post_to_delete): the row of that object leaves the table.
DeleteRows(ps, post) == ps \ {post}

\* BlogPost.comments is a relationship without a delete cascade: the unit of
\* work detaches the deleted post's comments by setting their post_id to NULL.
Orphaned(cmts, post) ==
    {IF k.post_id = post.id THEN [k EXCEPT !.post_id = NULL] ELSE k : k \in cmts}

delete_post(c, post_id) ==
    LET req == Request(c, "delete_post", post_id, FALSE, NoForm)
        post_to_delete == Get(posts, post_id)
    IN  /\ pending[c] = Idle
        /\ IF ~admin_only(c)
           THEN /\ resp' = Abort(req, "forbidden")
                /\ UNCHANGED <<posts, comments>>
           ELSE IF post_to_delete = {}
           THEN \* db.session.delete(None) raises
                /\ resp' = Abort(req, "error")
                /\ UNCHANGED <<posts, comments>>
           ELSE LET post == CHOOSE p \in post_to_delete : TRUE
                IN  /\ posts' = DeleteRows(posts, post)
                    /\ comments' = Orphaned(comments, post)
                    /\ resp' = Redirect(req, "get_all_posts", "")
        /\ UNCHANGED <<users, session, pending>>

---------------------------------------------------------------------------
(* Guards that keep the tables of the model finite; the code has none. *)
RoomForPost == NextId(posts) <= MaxPostId
RoomForComment == Cardinality(comments) < MaxComments

Browser == {"c1"}

(* Accounts and sessions: the three authentication handlers and the pages
   that only read, two browsers, every address with every password. *)
NextAuth ==
    \/ \E c \in Clients : get_all_posts(c)
    \/ \E c \in Clients : about(c)
    \/ \E c \in Clients : contact(c)
    \/ \E c \in Clients : register(c, FALSE, NoForm, "s1")
    \/ \E c \in Clients, form \in RegisterForms, salt \in Salts : register(c, TRUE, form, salt)
    \/ \E c \in Clients : login(c, FALSE, NoForm)
    \/ \E c \in Clients, form \in LoginForms : login(c, TRUE, form)
    \/ \E c \in Clients : logout(c)

SpecAuth == Init /\ [][NextAuth]_vars

(* Every handler, one request at a time, from one browser. *)
Next ==
    \/ \E c \in Browser : get_all_posts(c)
    \/ \E c \in Browser, form \in Accounts : register(c, TRUE, form, "s1")
    \/ \E c \in Browser, form \in Credentials : login(c, TRUE, form)
    \/ \E c \in Browser : logout(c)
    \/ \E c \in Browser, id \in PostIds, status \in {"ok", "error"} :
          show_post(c, id, FALSE, NoForm, status)
    \/ \E c \in Browser, id \in PostIds, form \in CommentForms :
          /\ RoomForComment
          /\ show_post(c, id, TRUE, form, "ok")
    \/ \E c \in Browser, today \in OneDay : add_new_post(c, FALSE, NoForm, today)
    \/ \E c \in Browser, form \in CreatePostForms, today \in OneDay :
          /\ admin_only(c) => RoomForPost
          /\ add_new_post(c, TRUE, form, today)
    \/ \E c \in Browser, id \in PostIds : edit_post(c, id, FALSE, NoForm)
    \/ \E c \in Browser, id \in PostIds, form \in CreatePostForms : edit_post(c, id, TRUE, form)
    \/ \E c \in Browser, id \in PostIds : delete_post(c, id)

Spec == Init /\ [][Next]_vars

(* Commenting: accounts, posts on two days, and the post page read and
   written; no post is edited or deleted. *)
RoomInThread == Cardinality(comments) < MaxThread

NextComments ==
    \/ \E c \in Browser, form \in Accounts : register(c, TRUE, form, "s1")
    \/ \E c \in Browser, form \in Credentials : login(c, TRUE, form)
    \/ \E c \in Browser : logout(c)
    \/ \E c \in Browser, id \in PostIds, status \in {"ok", "error"} :
          show_post(c, id, FALSE, NoForm, status)
    \/ \E c \in Browser, id \in PostIds, form \in CommentForms :
          /\ RoomInThread
          /\ show_post(c, id, TRUE, form, "ok")
    \/ \E c \in Browser, form \in CreatePostForms, today \in Days :
          /\ admin_only(c) => RoomForPost
          /\ add_new_post(c, TRUE, form, today)

SpecComments == Init /\ [][NextComments]_vars

---------------------------------------------------------------------------
(* Requests handled concurrently.  A handler that writes is two steps: what
   it does up to its last read of the store, and its commit.  Between the two
   any other request may run. *)

\* register, lines 106-112 and 120-122: the query of the address.
register_query(c, form) ==
    LET req == Request(c, "register", 0, TRUE, form)
    IN  /\ pending[c] = Idle
        /\ IF FilterByEmail(form.email) = {}
           THEN /\ pending' = [pending EXCEPT ![c] =
                                  InFlight("register", 0, form, {}, Anonymous, NoDay)]
                /\ UNCHANGED resp
           ELSE /\ resp' = Redirect(req, "login",
                      "You've already signed up with that email. Login instead")
                /\ UNCHANGED pending
        /\ UNCHANGED <<users, posts, comments, session>>

\* register, lines 113-119.
register_finish(c, salt) ==
    /\ pending[c].op = "register"
    /\ register_commit(c, Request(c, "register", 0, TRUE, pending[c].form),
                       pending[c].form, salt)
    /\ pending' = [pending EXCEPT ![c] = Idle]
    /\ UNCHANGED <<posts, comments>>

\* add_new_post, lines 191-205: the gate, the form, the row.
add_new_post_begin(c, form, today) ==
    /\ pending[c] = Idle
    /\ IF ~admin_only(c)
       THEN /\ resp' = Abort(Request(c, "add_new_post", 0, TRUE, form), "forbidden")
            /\ UNCHANGED pending
       ELSE /\ pending' = [pending EXCEPT ![c] =
                              InFlight("add_new_post", 0, form, {}, current_user_id(c), today)]
            /\ UNCHANGED resp
    /\ UNCHANGED <<users, posts, comments, session>>

\* add_new_post, lines 206-208.
add_new_post_finish(c) ==
    /\ pending[c].op = "add_new_post"
    /\ add_new_post_commit(Request(c, "add_new_post", 0, TRUE, pending[c].form),
                           pending[c].user_id, pending[c].form, pending[c].today)
    /\ pending' = [pending EXCEPT ![c] = Idle]
    /\ UNCHANGED <<users, comments, session>>

\* edit_post, lines 213-230: the gate, the row loaded, the form.
edit_post_begin(c, post_id, form) ==
    LET req == Request(c, "edit_post", post_id, TRUE, form)
        post == Get(posts, post_id)
    IN  /\ pending[c] = Idle
        /\ IF ~admin_only(c)
           THEN /\ resp' = Abort(req, "forbidden")
                /\ UNCHANGED pending
           ELSE IF post = {}
           THEN /\ resp' = Abort(req, "error")
                /\ UNCHANGED pending
           ELSE /\ pending' = [pending EXCEPT ![c] =
                                  InFlight("edit_post", post_id, form, post, Anonymous, NoDay)]
                /\ UNCHANGED resp
        /\ UNCHANGED <<users, posts, comments, session>>

\* edit_post, lines 231-232.
edit_post_finish(c) ==
    /\ pending[c].op = "edit_post"
    /\ edit_post_commit(Request(c, "edit_post", pending[c].post_id, TRUE, pending[c].form),
                        CHOOSE p \in pending[c].loaded : TRUE, pending[c].form)
    /\ pending' = [pending EXCEPT ![c] = Idle]
    /\ UNCHANGED <<users, comments, session>>

NextConc ==
    \/ \E c \in Clients, form \in Accounts : register_query(c, form)
    \/ \E c \in Clients : register_finish(c, "s1")
    \/ \E c \in Clients, form \in Credentials : login(c, TRUE, form)
    \/ \E c \in Clients, form \in CreatePostForms, today \in OneDay :
          add_new_post_begin(c, form, today)
    \/ \E c \in Clients :
          /\ RoomForPost
          /\ add_new_post_finish(c)
    \/ \E c \in Clients, id \in PostIds, form \in CreatePostForms : edit_post_begin(c, id, form)
    \/ \E c \in Clients : edit_post_finish(c)

SpecConc == Init /\ [][NextConc]_vars

---------------------------------------------------------------------------
(* Properties.  A step of a handler is recognised by the response it leaves
   in resp'; the unprimed variables are the state the request found. *)

AdminRoutes == {"add_new_post", "edit_post", "delete_post"}

IsAdminSession(c) == session[c] = ADMIN_ID /\ session[c] \in Ids(users)

\* C1: create, edit and delete of posts answer anything but "forbidden" only
\* to the session of user 1, the first user ever created; every other session,
\* the anonymous one included, gets "forbidden" and users, posts and comments
\* stay as they were.
C1_AdminGate ==
    [][ /\ resp'.route \in AdminRoutes =>
             /\ resp'.status # "forbidden" => IsAdminSession(resp'.client)
             /\ ~IsAdminSession(resp'.client) =>
                    /\ resp'.status = "forbidden"
                    /\ store' = store
        /\ users = {} /\ users' # {} => Ids(users') = {ADMIN_ID}
        /\ \A u \in users : u.id = ADMIN_ID => u \in users'
      ]_vars

C1_Witness ==
    /\ resp.route = "delete_post"
    /\ resp.status = "forbidden"
    /\ session[resp.client] \notin {Anonymous, ADMIN_ID}
    /\ resp.post_id \in Ids(posts)
    /\ comments # {}

\* the password a stored hash was made from
HashOf(u, password) == \E salt \in Salts : u.password = generate_password_hash(password, salt)

\* C2: register with an address that is not registered adds exactly one User
\* (that address, that name, that password) and the session becomes that
\* User's; with a registered address it answers with a flashed message and a
\* redirect to login, and neither the users nor the session change.
C2_Register ==
    [][ resp'.route = "register" /\ resp'.submitted =>
          LET c == resp'.client
              f == resp'.form
          IN  IF \A u \in users : u.email # f.email
              THEN \E u \in users' :
                      /\ u \notin users
                      /\ u.id \notin Ids(users)
                      /\ users' = users \cup {u}
                      /\ u.email = f.email
                      /\ u.name = f.name
                      /\ HashOf(u, f.password)
                      /\ session' = [session EXCEPT ![c] = u.id]
                      /\ resp'.status = "redirect"
                      /\ resp'.location = "get_all_posts"
              ELSE /\ users' = users
                   /\ session' = session
                   /\ resp'.status = "redirect"
                   /\ resp'.location = "login"
                   /\ resp'.flash # ""
      ]_vars

C2_Witness ==
    /\ resp.route = "register"
    /\ resp.location = "login"
    /\ resp.flash # ""
    /\ Cardinality(users) = 2
    /\ \E u \in users : u.email = resp.form.email /\ ~HashOf(u, resp.form.password)

\* C3: login with a registered address and its password makes the session
\* that User's; with a wrong password or an unknown address it fails, an
\* anonymous session stays anonymous, and no row of any table changes.
C3_Login ==
    [][ resp'.route = "login" /\ resp'.submitted =>
          LET c == resp'.client
              f == resp'.form
              match == {u \in users : u.email = f.email /\ HashOf(u, f.password)}
          IN  /\ store' = store
              /\ IF match # {}
                 THEN /\ \E u \in match : session'[c] = u.id
                      /\ resp'.status = "redirect"
                      /\ resp'.location = "get_all_posts"
                 ELSE /\ session[c] = Anonymous => session'[c] = Anonymous
                      /\ resp'.status = "ok"
                      /\ resp'.flash # ""
      ]_vars

C3_Witness ==
    /\ resp.route = "login"
    /\ resp.flash = "Invalid password."
    /\ session[resp.client] = Anonymous
    /\ \E u \in users : u.email = resp.form.email

\* C4: logout of an authenticated session makes it anonymous and changes no
\* row; logout of an anonymous session is rejected (401) and the session stays
\* anonymous.
C4_Logout ==
    [][ resp'.route = "logout" =>
          LET c == resp'.client
          IN  /\ store' = store
              /\ session'[c] = Anonymous
              /\ IF session[c] \in Ids(users)
                 THEN resp'.status = "redirect"
                 ELSE resp'.status = "unauthorized" /\ session[c] = Anonymous
      ]_vars

C4_Witness ==
    /\ resp.route = "logout"
    /\ resp.status = "redirect"
    /\ session[resp.client] = Anonymous
    /\ users # {}

\* C5: a comment submitted on an existing post by an anonymous session adds no
\* row and redirects to login; by an authenticated session it adds exactly
\* one row, of that session's user and of the requested post, and leaves every
\* other comment as it was.
C5_Comment ==
    [][ (resp'.route = "show_post" /\ resp'.submitted /\ resp'.post_id \in Ids(posts)) =>
          LET c == resp'.client
          IN  IF session[c] \notin Ids(users)
              THEN /\ comments' = comments
                   /\ resp'.status = "redirect"
                   /\ resp'.location = "login"
              ELSE \E k \in comments' :
                      /\ k \notin comments
                      /\ k.id \notin Ids(comments)
                      /\ comments' = comments \cup {k}
                      /\ k.author_id = session[c]
                      /\ k.post_id = resp'.post_id
                      /\ k.text = resp'.form.comment
      ]_vars

C5_Witness ==
    /\ resp.route = "show_post"
    /\ resp.submitted
    /\ resp.status = "ok"
    /\ Cardinality(comments) = 2
    /\ \E k \in comments : k.id = 2 /\ k.author_id = 2 /\ k.post_id = 2 /\ resp.post_id = 2

\* C6: every Comment references an existing User and an existing Post, and
\* every Post an existing User.
C6_References ==
    /\ \A k \in comments : k.author_id \in Ids(users) /\ k.post_id \in Ids(posts)
    /\ \A p \in posts : p.author_id \in Ids(users)

\* C7: no two Users share an email and no two Posts a title, however the reads
\* and the commits of concurrent register, create and edit requests interleave.
C7_Unique ==
    /\ \A a, b \in users : a.email = b.email => a = b
    /\ \A p, q \in posts : p.title = q.title => p = q

C7_Witness ==
    /\ resp.route = "register"
    /\ resp.status = "error"
    /\ \E u \in users : u.email = resp.form.email

\* C8: a post the admin creates exists afterwards with the session's user as
\* its author; a delete by identifier removes exactly that post; and the
\* listing of GET / is the posts that exist.
C8_Lifecycle ==
    [][ /\ (resp'.route = "add_new_post" /\ resp'.submitted /\ IsAdminSession(resp'.client)
             /\ \A p \in posts : p.title # resp'.form.title) =>
               resp'.status = "redirect"
        /\ (resp'.route = "add_new_post" /\ resp'.status = "redirect") =>
               \E p \in posts' :
                  /\ p.id \notin Ids(posts)
                  /\ posts' = posts \cup {p}
                  /\ p.author_id = session[resp'.client]
                  /\ p.title = resp'.form.title
                  /\ p.subtitle = resp'.form.subtitle
                  /\ p.body = resp'.form.body
                  /\ p.img_url = resp'.form.img_url
        /\ (resp'.route = "delete_post" /\ IsAdminSession(resp'.client)
             /\ resp'.post_id \in Ids(posts)) =>
               /\ resp'.status = "redirect"
               /\ posts' = {p \in posts : p.id # resp'.post_id}
        /\ resp'.route = "get_all_posts" => resp'.context.all_posts = posts'
      ]_vars

C8_Witness ==
    /\ resp.route = "delete_post"
    /\ resp.status = "redirect"
    /\ resp.post_id \notin Ids(posts)
    /\ posts # {}

\* C9: a successful edit replaces title, subtitle, image URL and body of the
\* post of that identifier by the submitted values and changes nothing else:
\* not its identifier, author or date, no other post, no user, no comment; and
\* the post page of an identifier shows the post as stored.
C9_Edit ==
    [][ /\ (resp'.route = "edit_post" /\ resp'.status = "redirect") =>
               /\ resp'.location = "show_post"
               /\ users' = users
               /\ comments' = comments
               /\ \E p \in posts :
                     /\ p.id = resp'.post_id
                     /\ posts' = (posts \ {p}) \cup
                           {[id |-> p.id, author_id |-> p.author_id, date |-> p.date,
                             title |-> resp'.form.title, subtitle |-> resp'.form.subtitle,
                             img_url |-> resp'.form.img_url, body |-> resp'.form.body]}
        /\ (resp'.route = "show_post" /\ resp'.status = "ok") =>
               resp'.context.post = {p \in posts' : p.id = resp'.post_id}
      ]_vars

C9_Witness ==
    /\ resp.route = "edit_post"
    /\ resp.status = "redirect"
    /\ Cardinality(posts) = 2
    /\ \E p \in posts : p.id = resp.post_id /\ p.subtitle = "Sub2"
    /\ \E k \in comments : k.post_id = resp.post_id

\* C10: the post page shows every stored comment, those of other posts and
\* the one the request itself added included.
C10_AllComments ==
    (resp.route = "show_post" /\ resp.status = "ok") => resp.context.comments = comments

C10_Witness ==
    /\ resp.route = "show_post"
    /\ resp.status = "ok"
    /\ resp.submitted
    /\ \E k \in resp.context.comments : k.post_id = resp.post_id /\ k.id = 2
    /\ \E k \in resp.context.comments : k.post_id # resp.post_id

=============================================================================
